---- MODULE Spec2Model ----
(***************************************************************************)
(* Model of src/app.py: the HTTP facade of the biochatter server.          *)
(*                                                                         *)
(* Python values are tagged records so that values of different Python     *)
(* types can be told apart: None, str (a sequence of one-character         *)
(* strings, so that str.lower() is computed), int, bool and dict (a        *)
(* function from key names to values).  An operator that models Python     *)
(* code which can raise returns Raise(<exception class>) instead of a      *)
(* value.                                                                  *)
(***************************************************************************)
EXTENDS Integers, Sequences, FiniteSets, TLC

VARIABLES
    environ,            \* os.environ restricted to HOST and KGHOST
    DEFAULT_RAGCONFIG,  \* the module-level dict of app.py:79-84
    conversations,      \* conversation manager: session id -> modelConfig
    pc,                 \* per worker thread: position inside handle()
    frame,              \* per worker thread: the locals of handle()
    last,               \* the request handled last and what came of it
    applied             \* the last direct application of a pure function

vars == <<environ, DEFAULT_RAGCONFIG, conversations, pc, frame, last, applied>>

----------------------------------------------------------------------------
\* Bounds

\* number of threadpool workers serving requests concurrently
NumWorkers == 2

Workers == 1..NumWorkers

----------------------------------------------------------------------------
\* Python values

None == [type |-> "NoneType"]

PyStr(s) == [type |-> "str", v |-> s]

PyInt(n) == [type |-> "int", v |-> n]

PyBool(b) == [type |-> "bool", v |-> b]

PyDict(d) == [type |-> "dict", v |-> d]

PyList(l) == [type |-> "list", v |-> l]

PyFloat(f) == [type |-> "float", v |-> f]

Raise(e) == [type |-> "raise", v |-> e]

IsRaise(x) == x.type = "raise"

EmptyDict == PyDict([k \in {} |-> None])

\* {k: val} merged into dict d (d[k] = val on a copy)
SetItem(d, k, val) ==
    PyDict([kk \in (DOMAIN d.v) \cup {k} |-> IF kk = k THEN val ELSE d.v[kk]])

\* bool(x) as used by "not x"
Truthy(x) ==
    CASE x.type = "NoneType" -> FALSE
      [] x.type = "dict" -> DOMAIN x.v # {}
      [] x.type = "str" -> Len(x.v) > 0
      [] x.type = "int" -> x.v # 0
      [] x.type = "bool" -> x.v
      [] x.type = "list" -> Len(x.v) > 0

\* obj.get(k, default): only a dict has .get
PyGet(obj, k, default) ==
    IF obj.type = "dict"
    THEN IF k \in DOMAIN obj.v THEN obj.v[k] ELSE default
    ELSE Raise("AttributeError")

\* obj[k] for a string key k
PyGetItem(obj, k) ==
    IF obj.type = "dict"
    THEN IF k \in DOMAIN obj.v THEN obj.v[k] ELSE Raise("KeyError")
    ELSE Raise("TypeError")

UpperCase == <<"A","B","C","D","E","F","G","H","I","J","K","L","M",
               "N","O","P","Q","R","S","T","U","V","W","X","Y","Z">>

LowerCase == <<"a","b","c","d","e","f","g","h","i","j","k","l","m",
               "n","o","p","q","r","s","t","u","v","w","x","y","z">>

\* the lower-case letter of each upper-case letter
UpperToLower ==
    [c \in {UpperCase[i] : i \in 1..Len(UpperCase)} |->
        LowerCase[CHOOSE i \in 1..Len(UpperCase) : UpperCase[i] = c]]

LowerChar(c) == IF c \in DOMAIN UpperToLower THEN UpperToLower[c] ELSE c

\* x.lower(): only a str has .lower
PyLower(x) ==
    IF x.type = "str"
    THEN PyStr([i \in 1..Len(x.v) |-> LowerChar(x.v[i])])
    ELSE Raise("AttributeError")

\* len(x)
PyLen(x) ==
    CASE x.type = "str" -> PyInt(Len(x.v))
      [] x.type = "dict" -> PyInt(Cardinality(DOMAIN x.v))
      [] x.type = "list" -> PyInt(Len(x.v))
      [] OTHER -> Raise("TypeError")

----------------------------------------------------------------------------
\* Module-level names of app.py

ARGS_CONNECTION_ARGS == "ARGS_CONNECTION_ARGS"

ERROR_OK == "ERROR_OK"

ERROR_UNKNOW == "ERROR_UNKNOW"

ERROR_MILVUS_UNKNOWN == "ERROR_MILVUS_UNKNOWN"

ERROR_MILVUS_CONNECT_FAILED == "ERROR_MILVUS_CONNECT_FAILED"

ERRSTR_MILVUS_CONNECT_FAILED == "ERRSTR_MILVUS_CONNECT_FAILED"

RAG_KG == "KG"

RAG_VECTORSTORE == "VS"

DefaultRagConfigLiteral ==
    PyDict([splitByChar |-> PyBool(TRUE), chunkSize |-> PyInt(1000),
          overlapSize |-> PyInt(0), resultNum |-> PyInt(3)])

LocalAlias == PyStr(<<"l","o","c","a","l">>)

Loopback == PyStr(<<"1","2","7",".","0",".","0",".","1">>)

\* connection_args.get("host", "").lower() == "local"; a raise propagates
host_is_local(connection_args) ==
    LET h == PyGet(connection_args, "host", PyStr(<<>>)) IN
    IF IsRaise(h) THEN h
    ELSE LET l == PyLower(h) IN
         IF IsRaise(l) THEN l ELSE PyBool(l = LocalAlias)

process_connection_args_kg_reads_host(rag, connection_args) ==
    LET isLocal == host_is_local(connection_args) IN
    IF rag = RAG_VECTORSTORE \/ rag = RAG_KG
    THEN IF IsRaise(isLocal) THEN isLocal
         ELSE IF isLocal.v
              THEN SetItem(connection_args, "host",
                     IF "HOST" \notin DOMAIN environ THEN Loopback
                     ELSE environ["HOST"])
              ELSE connection_args
    ELSE connection_args

process_connection_args_default_local(rag, connection_args) ==
    LET h == PyGet(connection_args, "host", LocalAlias)
        isLocal == IF IsRaise(h) THEN h
                   ELSE IF IsRaise(PyLower(h)) THEN PyLower(h)
                   ELSE PyBool(PyLower(h) = LocalAlias)
        var == IF rag = RAG_VECTORSTORE THEN "HOST" ELSE "KGHOST"
    IN
    IF rag = RAG_VECTORSTORE \/ rag = RAG_KG
    THEN IF IsRaise(isLocal) THEN isLocal
         ELSE IF isLocal.v
              THEN SetItem(connection_args, "host",
                     IF var \notin DOMAIN environ THEN Loopback
                     ELSE environ[var])
              ELSE connection_args
    ELSE connection_args

process_connection_args(rag, connection_args) ==
    LET isLocal == host_is_local(connection_args) IN
    IF rag = RAG_VECTORSTORE
    THEN IF IsRaise(isLocal) THEN isLocal
         ELSE IF isLocal.v
              THEN SetItem(connection_args, "host",
                     IF "HOST" \notin DOMAIN environ THEN Loopback
                     ELSE environ["HOST"])
              ELSE connection_args
    ELSE IF rag = RAG_KG
    THEN IF IsRaise(isLocal) THEN isLocal
         ELSE IF isLocal.v
              THEN SetItem(connection_args, "host",
                     IF "KGHOST" \notin DOMAIN environ THEN Loopback
                     ELSE environ["KGHOST"])
              ELSE connection_args
    ELSE connection_args

extract_and_process_params_from_json_body_or_default(json, name, defaultVal) ==
    IF ~Truthy(json) THEN defaultVal
    ELSE LET val == PyGet(json, name, None) IN
         IF IsRaise(val) THEN val
         ELSE IF Truthy(val) THEN val ELSE defaultVal

extract_and_process_params_from_json_body(json, name, defaultVal) ==
    IF ~Truthy(json) THEN defaultVal
    ELSE PyGet(json, name, defaultVal)

----------------------------------------------------------------------------
\* Collaborators (src/conversation_manager, src/document_embedder,
\* src/kg_agent, pymilvus): what a call can come back with

Returns(val) == [kind |-> "return", value |-> val]

MilvusConnectFailed ==
    [kind |-> "raise", class |-> "MilvusException", code |-> "CONNECT_FAILED",
     message |-> "e.message"]

MilvusOther ==
    [kind |-> "raise", class |-> "MilvusException", code |-> "OTHER",
     message |-> "e.message"]

OtherException ==
    [kind |-> "raise", class |-> "Exception", code |-> "none",
     message |-> "str(e)"]

Failures == {MilvusConnectFailed, MilvusOther, OtherException}

NotCalled ==
    [kind |-> "not_called", class |-> "none", code |-> "none",
     message |-> "none"]

\* get_auth(request)
Auth == "auth"

\* a handler ends by returning a JSON response, or an exception escapes it
Returned(endpoint, body, out, response, calls) ==
    [endpoint |-> endpoint, body |-> body, collab |-> out,
     outcome |-> "returned", response |-> response, exc |-> "none",
     calls |-> calls]

Escaped(endpoint, body, exc, calls) ==
    [endpoint |-> endpoint, body |-> body, collab |-> NotCalled,
     outcome |-> "raised", response |-> [none |-> TRUE], exc |-> exc,
     calls |-> calls]

NoRequest ==
    [endpoint |-> "none", body |-> None, collab |-> NotCalled,
     outcome |-> "none", response |-> [none |-> TRUE], exc |-> "none",
     calls |-> <<>>]

\* the object extract_and_process_params_from_json_body returns is
\* defaultVal itself (not a copy) exactly when this holds
returns_default_object(json, name) ==
    \/ ~Truthy(json)
    \/ json.type = "dict" /\ name \notin DOMAIN json.v

\* config[ARGS_CONNECTION_ARGS] = process_connection_args(rag, <same item>)
\* with a missing item read as an empty dict
normalize_config_setdefault(rag, config) ==
    LET item == PyGet(config, ARGS_CONNECTION_ARGS, EmptyDict) IN
    IF IsRaise(item) THEN item
    ELSE LET args == process_connection_args(rag, item) IN
         IF IsRaise(args) THEN args
         ELSE SetItem(config, ARGS_CONNECTION_ARGS, args)

\* config[ARGS_CONNECTION_ARGS] =
\*     process_connection_args(rag, config[ARGS_CONNECTION_ARGS])
\* The right-hand side is evaluated first; when it raises nothing is stored.
normalize_config(rag, config) ==
    LET item == PyGetItem(config, ARGS_CONNECTION_ARGS) IN
    IF IsRaise(item) THEN item
    ELSE LET args == process_connection_args(rag, item) IN
         IF IsRaise(args) THEN args
         ELSE SetItem(config, ARGS_CONNECTION_ARGS, args)

----------------------------------------------------------------------------
\* POST /v1/chat/completions

\* handle(), lines 114-152: the locals after parameter extraction, or the
\* exception raised on the way.  "default" is DEFAULT_RAGCONFIG afterwards:
\* ragConfig is the module-level dict itself when the body has no ragConfig,
\* so a store into ragConfig is a store into DEFAULT_RAGCONFIG.
handle_params(jsonBody) ==
    LET sessionId == extract_and_process_params_from_json_body(
                         jsonBody, "session_id", PyStr(<<>>))
        messages == extract_and_process_params_from_json_body(
                         jsonBody, "messages", PyList(<<>>))
        model == extract_and_process_params_from_json_body(
                         jsonBody, "model",
                         PyStr(<<"g","p","t","-","3",".","5","-","t","u","r","b","o">>))
        temperature == extract_and_process_params_from_json_body(
                         jsonBody, "temperature", PyFloat("0.7"))
        presence_penalty == extract_and_process_params_from_json_body(
                         jsonBody, "presence_penalty", PyInt(0))
        frequency_penalty == extract_and_process_params_from_json_body(
                         jsonBody, "frequency_penalty", PyInt(0))
        top_p == extract_and_process_params_from_json_body(
                         jsonBody, "top_p", PyInt(1))
        ragConfig0 == extract_and_process_params_from_json_body(
                         jsonBody, "ragConfig", DEFAULT_RAGCONFIG)
        ragConfig == normalize_config(RAG_VECTORSTORE, ragConfig0)
        default == IF returns_default_object(jsonBody, "ragConfig")
                      /\ ~IsRaise(ragConfig)
                   THEN ragConfig ELSE DEFAULT_RAGCONFIG
        useRAG == extract_and_process_params_from_json_body(
                         jsonBody, "useRAG", PyBool(FALSE))
        kgConfig0 == extract_and_process_params_from_json_body(
                         jsonBody, "kgConfig", EmptyDict)
        kgConfig == normalize_config(RAG_KG, kgConfig0)
        useKG == extract_and_process_params_from_json_body(
                         jsonBody, "useKG", PyBool(FALSE))
    IN
    IF IsRaise(ragConfig)
    THEN [raised |-> TRUE, exc |-> ragConfig.v, default |-> default]
    ELSE IF IsRaise(kgConfig)
    THEN [raised |-> TRUE, exc |-> kgConfig.v, default |-> default]
    ELSE [raised |-> FALSE, default |-> default, body |-> jsonBody,
          sessionId |-> sessionId, messages |-> messages, auth |-> Auth,
          ragConfig |-> ragConfig, useRAG |-> useRAG,
          kgConfig |-> kgConfig, useKG |-> useKG,
          modelConfig |-> [temperature |-> temperature,
                           presence_penalty |-> presence_penalty,
                           frequency_penalty |-> frequency_penalty,
                           top_p |-> top_p, model |-> model, auth |-> Auth]]

\* has_conversation(sessionId)
has_conversation(sessionId) == sessionId \in DOMAIN conversations

\* initialize_conversation(sessionId, modelConfig): the conversations after it
initialize_conversation(sessionId, modelConfig) ==
    [s \in (DOMAIN conversations) \cup {sessionId} |->
        IF s = sessionId THEN modelConfig ELSE conversations[s]]

\* the recycling job dropping session s
recycle(s) == [t \in (DOMAIN conversations) \ {s} |-> conversations[t]]

\* handle(), lines 182-191: the except clauses
handle_except(e) ==
    IF e.class = "MilvusException"
    THEN IF e.code = "CONNECT_FAILED"
         THEN [error |-> ERRSTR_MILVUS_CONNECT_FAILED,
               code |-> ERROR_MILVUS_CONNECT_FAILED]
         ELSE [error |-> e.message, code |-> ERROR_MILVUS_UNKNOWN]
    ELSE [error |-> e.message]

\* handle(), lines 166-191: the try statement around chat()
handle_response(out) ==
    IF out.kind = "return"
    THEN [choices |-> out.value.msg, usage |-> out.value.usage,
          contexts |-> out.value.contexts, code |-> ERROR_OK]
    ELSE handle_except(out)

NoFrame == [raised |-> FALSE]

\* what chat() can come back with
ChatOutcomes ==
    {Returns([msg |-> "msg", usage |-> "usage", contexts |-> "contexts"])}
        \cup Failures

\* lines 114-154: parameters are extracted and has_conversation() is asked
HandleBegin(w, jsonBody) ==
    /\ pc[w] = "idle"
    /\ LET p == handle_params(jsonBody) IN
       /\ DEFAULT_RAGCONFIG' = p.default
       /\ IF p.raised
          THEN /\ last' = Escaped("chat", jsonBody, p.exc, <<>>)
               /\ UNCHANGED <<pc, frame>>
          ELSE /\ frame' = [frame EXCEPT ![w] = p]
               /\ pc' = [pc EXCEPT ![w] =
                            IF has_conversation(p.sessionId)
                            THEN "chat" ELSE "initialize"]
               /\ UNCHANGED last
    /\ UNCHANGED <<environ, conversations, applied>>

\* lines 155-165: initialize_conversation()
HandleInitialize(w) ==
    /\ pc[w] = "initialize"
    /\ conversations' =
           initialize_conversation(frame[w].sessionId, frame[w].modelConfig)
    /\ pc' = [pc EXCEPT ![w] = "chat"]
    /\ UNCHANGED <<environ, DEFAULT_RAGCONFIG, frame, last, applied>>

\* lines 166-191: chat() and the response
HandleChat(w, out) ==
    /\ pc[w] = "chat"
    /\ last' = Returned("chat", frame[w].body, out, handle_response(out),
                  <<[fn |-> "chat", sessionId |-> frame[w].sessionId,
                     messages |-> frame[w].messages, auth |-> frame[w].auth,
                     ragConfig |-> frame[w].ragConfig,
                     useRAG |-> frame[w].useRAG,
                     kgConfig |-> frame[w].kgConfig,
                     useKG |-> frame[w].useKG]>>)
    /\ pc' = [pc EXCEPT ![w] = "idle"]
    /\ frame' = [frame EXCEPT ![w] = NoFrame]
    /\ UNCHANGED <<environ, DEFAULT_RAGCONFIG, conversations, applied>>

\* lines 50-51: the background job recycles a session
Recycle(s) ==
    /\ s \in DOMAIN conversations
    /\ conversations' = recycle(s)
    /\ UNCHANGED <<environ, DEFAULT_RAGCONFIG, pc, frame, last, applied>>

----------------------------------------------------------------------------
\* The other endpoints are handled in one step each.  The action draws what
\* the collaborator does (out) only for a request whose handler calls it:
\* out is NotCalled exactly when the handler makes no call.

----------------------------------------------------------------------------
\* POST /v1/rag/newdocument

EmptyObjectText == PyStr(<<"{", "}">>)

NullText == PyStr(<<"n", "u", "l", "l">>)

\* the text {"<ARGS_CONNECTION_ARGS>": {}}; the key, spelled in
\* src/constants.py, stands as one symbol
ConnectionArgsText ==
    PyStr(<<"{", "\"", ARGS_CONNECTION_ARGS, "\"", ":", "{", "}", "}">>)

\* json.loads on the texts above; any other text of the model is not JSON
json_loads(text) ==
    CASE text = EmptyObjectText -> EmptyDict
      [] text = NullText -> None
      [] text = ConnectionArgsText ->
             PyDict([k \in {ARGS_CONNECTION_ARGS} |-> EmptyDict])
      [] OTHER -> Raise("JSONDecodeError")

\* newDocument(), lines 214-223: the except clauses
newDocument_except(e) ==
    IF e.class = "MilvusException"
    THEN IF e.code = "CONNECT_FAILED"
         THEN [error |-> ERRSTR_MILVUS_CONNECT_FAILED,
               code |-> ERROR_MILVUS_CONNECT_FAILED]
         ELSE [error |-> e.message, code |-> ERROR_MILVUS_UNKNOWN]
    ELSE [error |-> e.message, code |-> ERROR_UNKNOW]

\* newDocument(), lines 196-223; out is what new_embedder_document() does.
\* The result carries DEFAULT_RAGCONFIG as the handler leaves it.
newDocument(jsonBody, out) ==
    LET tmpFile == extract_and_process_params_from_json_body(
                       jsonBody, "tmpFile", PyStr(<<>>))
        filename == extract_and_process_params_from_json_body(
                       jsonBody, "filename", PyStr(<<>>))
        ragConfig0 == extract_and_process_params_from_json_body(
                       jsonBody, "ragConfig", DEFAULT_RAGCONFIG)
        ragConfig1 == IF ragConfig0.type = "str"
                      THEN json_loads(ragConfig0) ELSE ragConfig0
        ragConfig == IF IsRaise(ragConfig1) THEN ragConfig1
                     ELSE normalize_config(RAG_VECTORSTORE, ragConfig1)
        default == IF returns_default_object(jsonBody, "ragConfig")
                      /\ ~IsRaise(ragConfig)
                   THEN ragConfig ELSE DEFAULT_RAGCONFIG
        call == [fn |-> "new_embedder_document", authKey |-> Auth,
                 tmpFile |-> tmpFile, filename |-> filename,
                 rag_config |-> ragConfig]
    IN
    [default |-> default,
     result |->
        IF IsRaise(ragConfig)
        THEN Escaped("newdocument", jsonBody, ragConfig.v, <<>>)
        ELSE Returned("newdocument", jsonBody, out,
                 IF out.kind = "return"
                 THEN [id |-> out.value, code |-> ERROR_OK]
                 ELSE newDocument_except(out),
                 <<call>>)]

NewDocumentOutcomes == {Returns(PyStr(<<"7">>))} \cup Failures

NewDocument(jsonBody, out) ==
    /\ LET r == newDocument(jsonBody, out) IN
       /\ (r.result.calls = <<>>) <=> (out = NotCalled)
       /\ last' = r.result
       /\ DEFAULT_RAGCONFIG' = r.default
    /\ UNCHANGED <<environ, conversations, pc, frame, applied>>

----------------------------------------------------------------------------
\* POST /v1/rag/alldocuments

RECURSIVE Digits(_)
\* the decimal digits of a natural number
Digits(n) ==
    LET d == <<"0","1","2","3","4","5","6","7","8","9">>[(n % 10) + 1] IN
    IF n < 10 THEN <<d>> ELSE Append(Digits(n \div 10), d)

\* str(x) for an int or a str
PyStrOf(x) ==
    IF x.type = "int" THEN PyStr(Digits(x.v)) ELSE x

\* post_process(docs), lines 228-231; a doc without "id" raises KeyError
post_process(docs) ==
    IF \E i \in 1..Len(docs.v) : IsRaise(PyGetItem(docs.v[i], "id"))
    THEN Raise("KeyError")
    ELSE PyList([i \in 1..Len(docs.v) |->
                   SetItem(docs.v[i], "id", PyStrOf(docs.v[i].v["id"]))])

\* getAllDocuments(), lines 244-253: the except clauses
getAllDocuments_except(e) ==
    IF e.class = "MilvusException"
    THEN IF e.code = "CONNECT_FAILED"
         THEN [error |-> ERRSTR_MILVUS_CONNECT_FAILED,
               code |-> ERROR_MILVUS_CONNECT_FAILED]
         ELSE [error |-> e.message, code |-> ERROR_MILVUS_UNKNOWN]
    ELSE [error |-> e.message, code |-> ERROR_UNKNOW]

\* getAllDocuments(), lines 233-253; out is what get_all_documents() does
getAllDocuments(jsonBody, out) ==
    LET connection_args0 == extract_and_process_params_from_json_body(
                                jsonBody, ARGS_CONNECTION_ARGS, None)
        connection_args ==
            process_connection_args(RAG_VECTORSTORE, connection_args0)
        doc_ids == extract_and_process_params_from_json_body(
                       jsonBody, "docIds", None)
        call == [fn |-> "get_all_documents", auth |-> Auth,
                 connection_args |-> connection_args, doc_ids |-> doc_ids]
    IN
    IF IsRaise(connection_args)
    THEN Escaped("alldocuments", jsonBody, connection_args.v, <<>>)
    ELSE Returned("alldocuments", jsonBody, out,
             IF out.kind = "return"
             THEN IF IsRaise(post_process(out.value))
                  THEN [error |-> "str(e)", code |-> ERROR_UNKNOW]
                  ELSE [documents |-> post_process(out.value),
                        code |-> ERROR_OK]
             ELSE getAllDocuments_except(out),
             <<call>>)

GetAllDocumentsOutcomes ==
    {Returns(PyList(<<>>)),
     Returns(PyList(<<PyDict([id |-> PyInt(42)])>>))} \cup Failures

GetAllDocuments(jsonBody, out) ==
    /\ LET r == getAllDocuments(jsonBody, out) IN
       /\ (r.calls = <<>>) <=> (out = NotCalled)
       /\ last' = r
    /\ UNCHANGED <<environ, DEFAULT_RAGCONFIG, conversations, pc, frame, applied>>

----------------------------------------------------------------------------
\* DELETE /v1/rag/document

\* removeDocument(), lines 273-282: the except clauses
removeDocument_except(e) ==
    IF e.class = "MilvusException"
    THEN IF e.code = "CONNECT_FAILED"
         THEN [error |-> ERRSTR_MILVUS_CONNECT_FAILED,
               code |-> ERROR_MILVUS_CONNECT_FAILED]
         ELSE [error |-> e.message, code |-> ERROR_MILVUS_UNKNOWN]
    ELSE [error |-> e.message, code |-> ERROR_UNKNOW]

\* removeDocument(), lines 258-282; out is what remove_document() does
removeDocument(jsonBody, out) ==
    LET docId == extract_and_process_params_from_json_body(
                     jsonBody, "docId", PyStr(<<>>))
        connection_args0 == extract_and_process_params_from_json_body(
                                jsonBody, ARGS_CONNECTION_ARGS, None)
        connection_args ==
            process_connection_args(RAG_VECTORSTORE, connection_args0)
        doc_ids == extract_and_process_params_from_json_body(
                       jsonBody, "docIds", None)
        call == [fn |-> "remove_document", docId |-> docId, authKey |-> Auth,
                 connection_args |-> connection_args, doc_ids |-> doc_ids]
    IN
    IF IsRaise(connection_args)
    THEN Escaped("document", jsonBody, connection_args.v, <<>>)
    ELSE IF IsRaise(PyLen(docId))
    THEN Escaped("document", jsonBody, PyLen(docId).v, <<>>)
    ELSE IF PyLen(docId).v = 0
    THEN Returned("document", jsonBody, NotCalled,
             [error |-> "Failed to find document"], <<>>)
    ELSE Returned("document", jsonBody, out,
             IF out.kind = "return"
             THEN [id |-> docId, code |-> ERROR_OK]
             ELSE removeDocument_except(out),
             <<call>>)

RemoveDocumentOutcomes == {Returns(None)} \cup Failures

RemoveDocument(jsonBody, out) ==
    /\ LET r == removeDocument(jsonBody, out) IN
       /\ (r.calls = <<>>) <=> (out = NotCalled)
       /\ last' = r
    /\ UNCHANGED <<environ, DEFAULT_RAGCONFIG, conversations, pc, frame, applied>>

----------------------------------------------------------------------------
\* POST /v1/rag/connectionstatus

\* getConnectionStatus(), lines 299-302: the except clauses
getConnectionStatus_except(e) ==
    IF e.class = "MilvusException"
    THEN [error |-> e.message, code |-> ERROR_MILVUS_UNKNOWN]
    ELSE [error |-> e.message, code |-> ERROR_UNKNOW]

\* getConnectionStatus(), lines 287-302; out is what
\* get_vectorstore_connection_status() does.  The whole body is in the try.
getConnectionStatus(jsonBody, out) ==
    LET connection_args0 == extract_and_process_params_from_json_body(
                                jsonBody, ARGS_CONNECTION_ARGS, None)
        connection_args ==
            process_connection_args(RAG_VECTORSTORE, connection_args0)
        call == [fn |-> "get_vectorstore_connection_status",
                 connection_args |-> connection_args, auth |-> Auth]
    IN
    IF IsRaise(connection_args)
    THEN Returned("rag/connectionstatus", jsonBody, NotCalled,
             [error |-> "str(e)", code |-> ERROR_UNKNOW], <<>>)
    ELSE Returned("rag/connectionstatus", jsonBody, out,
             IF out.kind = "return"
             THEN [status |-> IF out.value THEN "connected" ELSE "disconnected",
                   code |-> ERROR_OK]
             ELSE getConnectionStatus_except(out),
             <<call>>)

ConnectionStatusOutcomes == {Returns(TRUE), Returns(FALSE)} \cup Failures

GetConnectionStatus(jsonBody, out) ==
    /\ LET r == getConnectionStatus(jsonBody, out) IN
       /\ (r.calls = <<>>) <=> (out = NotCalled)
       /\ last' = r
    /\ UNCHANGED <<environ, DEFAULT_RAGCONFIG, conversations, pc, frame, applied>>

----------------------------------------------------------------------------
\* POST /v1/kg/connectionstatus

\* getKGConnectionStatus(), lines 320-321: the except clause
getKGConnectionStatus_except(e) ==
    [error |-> e.message, code |-> ERROR_UNKNOW]

\* getKGConnectionStatus(), lines 309-321; out is what
\* get_kg_connection_status() does.  The whole body is in the try.
getKGConnectionStatus(jsonBody, out) ==
    LET connection_args0 == extract_and_process_params_from_json_body(
                                jsonBody, ARGS_CONNECTION_ARGS, None)
        connection_args == process_connection_args(RAG_KG, connection_args0)
        call == [fn |-> "get_kg_connection_status",
                 connection_args |-> connection_args]
    IN
    IF IsRaise(connection_args)
    THEN Returned("kg/connectionstatus", jsonBody, NotCalled,
             [error |-> "str(e)", code |-> ERROR_UNKNOW], <<>>)
    ELSE Returned("kg/connectionstatus", jsonBody, out,
             IF out.kind = "return"
             THEN [status |-> IF out.value THEN "connected" ELSE "disconnected",
                   code |-> ERROR_OK]
             ELSE getKGConnectionStatus_except(out),
             <<call>>)

GetKGConnectionStatus(jsonBody, out) ==
    /\ LET r == getKGConnectionStatus(jsonBody, out) IN
       /\ (r.calls = <<>>) <=> (out = NotCalled)
       /\ last' = r
    /\ UNCHANGED <<environ, DEFAULT_RAGCONFIG, conversations, pc, frame, applied>>

----------------------------------------------------------------------------
\* Requests and environments the model draws from

HostUpper == PyStr(<<"L","O","C","A","L">>)

HostMixed == PyStr(<<"L","o","c","A","l">>)

HostLocalhost == PyStr(<<"l","o","c","a","l","h","o","s","t">>)

HostRemote == PyStr(<<"1","0",".","0",".","0",".","7">>)

EnvHost == PyStr(<<"m","i","l","v","u","s">>)

EnvKGHost == PyStr(<<"n","e","o","4","j">>)

Port == PyStr(<<"1","9","5","3","0">>)

NoEnv == [k \in {} |-> None]

\* os.environ for the server runs
Environments == {NoEnv, [HOST |-> EnvHost, KGHOST |-> EnvKGHost]}

\* os.environ for the runs of process_connection_args alone; HOST may itself
\* be set to the alias
PureEnvironments ==
    {[k \in ks |-> IF k = "HOST" THEN h ELSE EnvKGHost] :
        ks \in SUBSET {"HOST", "KGHOST"}, h \in {EnvHost, HostUpper}}

ConnectionArgs(host) == PyDict([host |-> host, port |-> Port])

WithConnectionArgs(d, connection_args) ==
    SetItem(d, ARGS_CONNECTION_ARGS, connection_args)

SessionA == PyStr(<<"a">>)

Gpt4 == PyStr(<<"g","p","t","-","4">>)

HandleBodies ==
    {None,
     PyDict([session_id |-> SessionA,
             kgConfig |-> WithConnectionArgs(EmptyDict, ConnectionArgs(LocalAlias))]),
     PyDict([ragConfig |-> WithConnectionArgs(EmptyDict, ConnectionArgs(HostMixed))]),
     PyDict([session_id |-> SessionA,
             ragConfig |-> WithConnectionArgs(PyDict([resultNum |-> PyInt(3)]),
                                              ConnectionArgs(HostUpper)),
             kgConfig |-> WithConnectionArgs(EmptyDict, ConnectionArgs(LocalAlias))]),
     PyDict([session_id |-> SessionA, model |-> Gpt4,
             ragConfig |-> WithConnectionArgs(EmptyDict, ConnectionArgs(HostRemote)),
             kgConfig |-> WithConnectionArgs(EmptyDict, PyDict([port |-> Port]))])}

NewDocumentBodies ==
    {None,
     PyDict([tmpFile |-> PyStr(<<"t">>), filename |-> PyStr(<<"f">>)]),
     PyDict([tmpFile |-> PyStr(<<"t">>),
             ragConfig |-> WithConnectionArgs(PyDict([chunkSize |-> PyInt(500)]),
                                              ConnectionArgs(HostUpper))]),
     PyDict([ragConfig |-> EmptyObjectText]),
     PyDict([ragConfig |-> NullText]),
     PyDict([ragConfig |-> ConnectionArgsText]),
     PyDict([ragConfig |-> PyStr(<<"x">>)])}

DocIds == PyList(<<PyStr(<<"4","2">>)>>)

AllDocumentsBodies ==
    {None,
     PyDict([docIds |-> DocIds]),
     WithConnectionArgs(EmptyDict, ConnectionArgs(LocalAlias)),
     WithConnectionArgs(PyDict([docIds |-> DocIds]), ConnectionArgs(HostLocalhost))}

DocId == PyStr(<<"4","2">>)

RemoveDocumentBodies ==
    {None,
     PyDict([docId |-> PyStr(<<>>)]),
     PyDict([docId |-> DocId]),
     WithConnectionArgs(EmptyDict, ConnectionArgs(LocalAlias)),
     WithConnectionArgs(PyDict([docId |-> PyStr(<<>>)]), ConnectionArgs(LocalAlias)),
     WithConnectionArgs(PyDict([docId |-> DocId]), ConnectionArgs(HostMixed)),
     WithConnectionArgs(PyDict([docId |-> None]), ConnectionArgs(HostRemote))}

ConnectionStatusBodies ==
    {None,
     PyDict([docIds |-> DocIds]),
     WithConnectionArgs(EmptyDict, ConnectionArgs(HostUpper))}

\* inputs of process_connection_args applied alone
Rags == {RAG_VECTORSTORE, RAG_KG, "XX"}

HostInputs ==
    {LocalAlias, HostUpper, HostMixed, HostLocalhost, HostRemote, PyStr(<<>>),
     PyInt(0), None}

ConnectionArgsInputs ==
    {None} \cup
    {PyDict([k \in ks |-> CASE k = "host" -> h
                            [] k = "port" -> Port
                            [] k = "user" -> PyStr(<<"r","o","o","t">>)]) :
        ks \in SUBSET {"host", "port", "user"}, h \in HostInputs}

\* inputs of extract_and_process_params_from_json_body applied alone
Names == {"docId", "useRAG", "ragConfig"}

StoredValues ==
    {None, PyStr(<<>>), PyInt(0), PyBool(FALSE), EmptyDict, DocId, PyBool(TRUE)}

JsonInputs ==
    {None} \cup
    {PyDict([k \in ks |-> IF k = "docId" THEN a ELSE b]) :
        ks \in SUBSET {"docId", "useRAG"}, a \in StoredValues, b \in StoredValues}

DefaultInputs == {None, PyStr(<<>>), PyBool(FALSE), DefaultRagConfigLiteral}

Unset == [type |-> "unset"]

----------------------------------------------------------------------------
\* The pure functions applied alone

ApplyProcessConnectionArgs(rag, connection_args) ==
    /\ applied' = [fn |-> "process_connection_args", rag |-> rag,
                   arg |-> connection_args,
                   result |-> process_connection_args(rag, connection_args),
                   twice |-> Unset]
    /\ UNCHANGED <<environ, DEFAULT_RAGCONFIG, conversations, pc, frame, last>>

\* the function applied again to what it returned
ReapplyProcessConnectionArgs ==
    /\ applied.fn = "process_connection_args"
    /\ applied.twice = Unset
    /\ ~IsRaise(applied.result)
    /\ applied' = [applied EXCEPT
                      !.twice = process_connection_args(applied.rag, applied.result)]
    /\ UNCHANGED <<environ, DEFAULT_RAGCONFIG, conversations, pc, frame, last>>

ApplyExtract(json, name, defaultVal) ==
    /\ applied' = [fn |-> "extract_and_process_params_from_json_body",
                   json |-> json, name |-> name, defaultVal |-> defaultVal,
                   result |-> extract_and_process_params_from_json_body(
                                  json, name, defaultVal)]
    /\ UNCHANGED <<environ, DEFAULT_RAGCONFIG, conversations, pc, frame, last>>

----------------------------------------------------------------------------
\* Specifications

InitServer ==
    /\ DEFAULT_RAGCONFIG = DefaultRagConfigLiteral
    /\ conversations = [s \in {} |-> None]
    /\ pc = [w \in Workers |-> "idle"]
    /\ frame = [w \in Workers |-> NoFrame]
    /\ last = NoRequest
    /\ applied = [fn |-> "none"]

Init ==
    /\ environ \in Environments
    /\ InitServer

Next ==
    \/ \E w \in Workers, jsonBody \in HandleBodies : HandleBegin(w, jsonBody)
    \/ \E w \in Workers : HandleInitialize(w)
    \/ \E w \in Workers, out \in ChatOutcomes : HandleChat(w, out)
    \/ \E s \in DOMAIN conversations : Recycle(s)
    \/ \E jsonBody \in NewDocumentBodies, out \in NewDocumentOutcomes \cup {NotCalled} :
           NewDocument(jsonBody, out)
    \/ \E jsonBody \in AllDocumentsBodies, out \in GetAllDocumentsOutcomes \cup {NotCalled} :
           GetAllDocuments(jsonBody, out)
    \/ \E jsonBody \in RemoveDocumentBodies, out \in RemoveDocumentOutcomes \cup {NotCalled} :
           RemoveDocument(jsonBody, out)
    \/ \E jsonBody \in ConnectionStatusBodies, out \in ConnectionStatusOutcomes \cup {NotCalled} :
           GetConnectionStatus(jsonBody, out)
    \/ \E jsonBody \in ConnectionStatusBodies, out \in ConnectionStatusOutcomes \cup {NotCalled} :
           GetKGConnectionStatus(jsonBody, out)

\* the server: requests on every endpoint, concurrent chat completions and
\* the recycling job
Spec == Init /\ [][Next]_vars

PureInit ==
    /\ environ \in PureEnvironments
    /\ InitServer

PureNext ==
    \/ \E rag \in Rags, connection_args \in ConnectionArgsInputs :
           ApplyProcessConnectionArgs(rag, connection_args)
    \/ ReapplyProcessConnectionArgs
    \/ \E json \in JsonInputs, name \in Names, defaultVal \in DefaultInputs :
           ApplyExtract(json, name, defaultVal)

\* process_connection_args and extract_and_process_params_from_json_body
\* applied to inputs drawn from bounded sets
PureSpec == PureInit /\ [][PureNext]_vars

----------------------------------------------------------------------------
\* Properties

\* "local" in every letter case
LocalSpellings ==
    {PyStr(<<a, b, c, d, e>>) :
        a \in {"l", "L"}, b \in {"o", "O"}, c \in {"c", "C"},
        d \in {"a", "A"}, e \in {"l", "L"}}

\* the request handled last got a JSON response with an error and a code
ErrorAndCode ==
    /\ last.outcome = "returned"
    /\ {"error", "code"} \subseteq DOMAIN last.response

\* C1: on every endpoint, whenever the collaborator call raises (a
\* MilvusException or any other Exception), the JSON response holds both an
\* "error" and a "code" field.
EveryExceptionYieldsErrorAndCode ==
    last.collab.kind = "raise" => ErrorAndCode

\* C2: for rag = "VS" a host that is "local" in any letter case becomes
\* os.environ["HOST"] when HOST is set and "127.0.0.1" when it is not; for
\* rag = "KG" the same holds with KGHOST.
LocalHostRewritten ==
    (/\ applied.fn = "process_connection_args"
     /\ applied.arg.type = "dict"
     /\ "host" \in DOMAIN applied.arg.v
     /\ applied.arg.v["host"] \in LocalSpellings)
    =>
    /\ applied.rag = "VS" =>
           /\ applied.result.type = "dict"
           /\ applied.result.v["host"] =
                  IF "HOST" \in DOMAIN environ THEN environ["HOST"]
                  ELSE PyStr(<<"1","2","7",".","0",".","0",".","1">>)
    /\ applied.rag = "KG" =>
           /\ applied.result.type = "dict"
           /\ applied.result.v["host"] =
                  IF "KGHOST" \in DOMAIN environ THEN environ["KGHOST"]
                  ELSE PyStr(<<"1","2","7",".","0",".","0",".","1">>)

\* C2 witness: a mixed-case "local" host was rewritten for KG to KGHOST while
\* HOST is set to something else
LocalHostRewrittenWitness ==
    /\ applied.fn = "process_connection_args"
    /\ applied.rag = "KG"
    /\ applied.arg = PyDict([host |-> HostMixed, port |-> Port])
    /\ DOMAIN environ = {"HOST", "KGHOST"}
    /\ environ["HOST"] # environ["KGHOST"]
    /\ applied.result.v["host"] = EnvKGHost

\* C3: the result is defaultVal when the body is missing or empty, defaultVal
\* when the body lacks the key, and otherwise exactly the stored value, even
\* a falsy or null one.
DefaultsApplied ==
    applied.fn = "extract_and_process_params_from_json_body" =>
        applied.result =
            IF applied.json = None \/ applied.json = EmptyDict
            THEN applied.defaultVal
            ELSE IF applied.name \notin DOMAIN applied.json.v
            THEN applied.defaultVal
            ELSE applied.json.v[applied.name]

\* C3 witness: a stored null came back although the default is not null
DefaultsAppliedWitness ==
    /\ applied.fn = "extract_and_process_params_from_json_body"
    /\ applied.json # None
    /\ applied.name \in DOMAIN applied.json.v
    /\ applied.json.v[applied.name] = None
    /\ applied.defaultVal = DefaultRagConfigLiteral
    /\ applied.result = None

\* C4: a chat completions request that omits ragConfig and/or kgConfig is
\* served with the defaults: chat() is called and a JSON response returned;
\* a newdocument request that omits ragConfig reaches
\* new_embedder_document with DEFAULT_RAGCONFIG.
DefaultsThenDispatch ==
    /\ (/\ last.endpoint = "chat"
        /\ \/ returns_default_object(last.body, "ragConfig")
           \/ returns_default_object(last.body, "kgConfig"))
       => /\ last.outcome = "returned"
          /\ Len(last.calls) = 1
          /\ last.calls[1].fn = "chat"
    /\ (/\ last.endpoint = "newdocument"
        /\ returns_default_object(last.body, "ragConfig"))
       => /\ last.outcome = "returned"
          /\ Len(last.calls) = 1
          /\ last.calls[1].fn = "new_embedder_document"

\* the request handled last carried no connection args: no body, or (on the
\* endpoints that read them from the body itself) no such entry
NoConnectionArgs ==
    /\ last.endpoint # "none"
    /\ \/ ~Truthy(last.body)
       \/ /\ last.endpoint \in {"alldocuments", "document",
                                "rag/connectionstatus", "kg/connectionstatus"}
          /\ ARGS_CONNECTION_ARGS \notin DOMAIN last.body.v

\* C5: a request without connection args ends in a JSON response carrying an
\* error and a code, on alldocuments and delete document as on the two
\* connectionstatus endpoints; no exception escapes the handler.
MissingConnectionArgsYieldErrorJson ==
    NoConnectionArgs => ErrorAndCode

\* C6: in every handler that calls the vector store a MilvusException with
\* code CONNECT_FAILED yields ERRSTR_MILVUS_CONNECT_FAILED and
\* ERROR_MILVUS_CONNECT_FAILED, any other MilvusException yields its message
\* and ERROR_MILVUS_UNKNOWN, and a successful call yields ERROR_OK.
VectorStoreErrorMapping ==
    (/\ last.endpoint \in {"chat", "newdocument", "alldocuments", "document",
                           "rag/connectionstatus"}
     /\ last.collab.kind # "not_called")
    =>
    /\ last.outcome = "returned"
    /\ last.collab = MilvusConnectFailed =>
           last.response = [error |-> "ERRSTR_MILVUS_CONNECT_FAILED",
                            code |-> "ERROR_MILVUS_CONNECT_FAILED"]
    /\ last.collab = MilvusOther =>
           last.response = [error |-> "e.message",
                            code |-> "ERROR_MILVUS_UNKNOWN"]
    /\ last.collab.kind = "return" =>
           /\ "code" \in DOMAIN last.response
           /\ last.response.code = "ERROR_OK"

\* C7: the result has the keys of the argument and the same value under
\* every key but "host"; it is the argument itself when the host is absent,
\* is not "local" in any letter case, or rag is neither "VS" nor "KG"; and
\* applying the function to its result changes nothing.
NormalizationFrame ==
    (applied.fn = "process_connection_args" /\ ~IsRaise(applied.result))
    =>
    /\ applied.arg.type = "dict" =>
           /\ applied.result.type = "dict"
           /\ DOMAIN applied.result.v = DOMAIN applied.arg.v
           /\ \A k \in (DOMAIN applied.arg.v) \ {"host"} :
                  applied.result.v[k] = applied.arg.v[k]
    /\ (\/ applied.rag \notin {"VS", "KG"}
        \/ applied.arg.type # "dict"
        \/ "host" \notin DOMAIN applied.arg.v
        \/ applied.arg.v["host"] \notin LocalSpellings)
       => applied.result = applied.arg
    /\ applied.twice # Unset => applied.twice = applied.result

\* C7 witness: a "LOCAL" host with a port beside it was rewritten for VS to
\* a HOST that is itself "LOCAL", and the function was applied again
NormalizationFrameWitness ==
    /\ applied.fn = "process_connection_args"
    /\ applied.rag = "VS"
    /\ applied.arg = PyDict([host |-> LocalAlias, port |-> Port])
    /\ "HOST" \in DOMAIN environ
    /\ environ["HOST"] = HostUpper
    /\ applied.result = PyDict([host |-> HostUpper, port |-> Port])
    /\ applied.twice = applied.result

\* C8: under any interleaving of chat completions requests and the recycling
\* job, initialize_conversation is not invoked for a session that exists,
\* and chat() is not invoked for a session that does not exist at the
\* moment of the call.
SessionCallsInOrder ==
    [][\A w \in Workers :
          /\ (pc[w] = "initialize" /\ pc'[w] = "chat")
                 => ~has_conversation(frame[w].sessionId)
          /\ (pc[w] = "chat" /\ pc'[w] = "idle")
                 => has_conversation(frame[w].sessionId)]_vars

\* C9: after any sequence of requests DEFAULT_RAGCONFIG is still
\* {splitByChar: true, chunkSize: 1000, overlapSize: 0, resultNum: 3}.
DefaultRagConfigNeverModified ==
    DEFAULT_RAGCONFIG =
        PyDict([splitByChar |-> PyBool(TRUE), chunkSize |-> PyInt(1000),
                overlapSize |-> PyInt(0), resultNum |-> PyInt(3)])

\* C9 witness: a chat completions or newdocument request without ragConfig,
\* which got the module-level dict itself, has been handled
DefaultRagConfigNeverModifiedWitness ==
    /\ last.endpoint \in {"chat", "newdocument"}
    /\ last.body # None
    /\ returns_default_object(last.body, "ragConfig")
    /\ last.outcome # "none"

\* the request handled last has no docId, or an empty one
EmptyDocId ==
    \/ ~Truthy(last.body)
    \/ "docId" \notin DOMAIN last.body.v
    \/ last.body.v["docId"] = PyStr(<<>>)

\* C10: delete document with a missing or empty docId never calls
\* remove_document and returns the error "Failed to find document",
\* whatever the other body fields are; with a non-empty docId and connection
\* args it calls remove_document once with that docId and on success
\* returns {id: docId, code: ERROR_OK}.
DeleteRejectsEmptyDocId ==
    last.endpoint = "document" =>
        /\ EmptyDocId =>
               /\ last.calls = <<>>
               /\ last.outcome = "returned"
               /\ last.response = [error |-> "Failed to find document"]
        /\ (/\ ~EmptyDocId
            /\ last.body.v["docId"].type = "str"
            /\ ARGS_CONNECTION_ARGS \in DOMAIN last.body.v)
           => /\ Len(last.calls) = 1
              /\ last.calls[1].fn = "remove_document"
              /\ last.calls[1].docId = last.body.v["docId"]
              /\ last.collab.kind = "return" =>
                     last.response = [id |-> last.body.v["docId"],
                                      code |-> "ERROR_OK"]

====
